---- MODULE Spec2Model ----
(***************************************************************************)
(* Model of the flappy-bird game component (Game, NeuralNetwork,           *)
(* GAME_CONFIG).                                                           *)
(*                                                                         *)
(* Number representation.  The program computes with IEEE doubles; the     *)
(* model uses fixed point:                                                 *)
(*   - vertical quantities (y, velocity, GRAVITY, JUMP_STRENGTH, heights)  *)
(*     are in tenths of a pixel;                                           *)
(*   - horizontal quantities (x, widths, PIPE_SPEED) are in thirds of a    *)
(*     pixel, so that bird.x = CANVAS_WIDTH / 3 is exact;                  *)
(*   - distance, score and fitness are the program's own integers;         *)
(*   - controller weights and biases are in tenths;                        *)
(*   - rotation is in 1e-4 rad;                                            *)
(*   - time is in thirds of a millisecond (FIXED_TIME_STEP = 1000/60 ms).  *)
(***************************************************************************)
EXTENDS Integers, Sequences, FiniteSets, TLC

\* ------------------------------------------------------------------------
\* Scales of the fixed-point representation
YS == 10
XS == 3
TS == 3

\* ------------------------------------------------------------------------
\* GAME_CONFIG
GRAVITY == 6
JUMP_STRENGTH == -80
PIPE_SPEED_PX == 3
PIPE_SPEED == PIPE_SPEED_PX * XS
PIPE_SPAWN_RATE == 100
PIPE_WIDTH == 52 * XS
PIPE_GAP == 150 * YS
BIRD_RADIUS_PX == 16
BIRD_RADIUS_X == BIRD_RADIUS_PX * XS
BIRD_RADIUS == BIRD_RADIUS_PX * YS
GROUND_HEIGHT == 100 * YS
CANVAS_WIDTH_PX == 400
CANVAS_WIDTH == CANVAS_WIDTH_PX * XS
CANVAS_HEIGHT_PX == 600
CANVAS_HEIGHT == CANVAS_HEIGHT_PX * YS
AI_POPULATION == 50
AI_MUTATION_RATE == 1

\* Other literals of Game
SCORE_WEIGHT == 5000
bestCount == 5
minPipeH == 50 * YS
maxPipeH == CANVAS_HEIGHT - GROUND_HEIGHT - PIPE_GAP - minPipeH
FIXED_TIME_STEP == (1000 * TS) \div 60
ACC_CAP_LOOSE == 600 * TS
ACC_CAP == 500 * TS
PI_4 == 7854
CHAMPION == "#FF0000"
PLAYER_COLOR == "#FACC15"
HSLA == "hsla"

\* ------------------------------------------------------------------------
\* Bounds of the model
\* steps of one population: in a plain session (normal speed, first
\* generation, nothing stored since the page was loaded), in any other
\* session of manual mode, and in any other session of AI mode
MaxSteps == 252
MaxManualSteps == 30
MaxSideSteps == 3
MaxGeneration == 2
MaxInputStep == 1
MaxPending == 2

\* ------------------------------------------------------------------------
\* Generic helpers
RECURSIVE SumSeq(_)
SumSeq(s) == IF s = <<>> THEN 0 ELSE Head(s) + SumSeq(Tail(s))

Min(a, b) == IF a < b THEN a ELSE b
Max(a, b) == IF a > b THEN a ELSE b


\* ------------------------------------------------------------------------
\* NeuralNetwork (part_001).  A network is a record of its seven fields.
\* Weights and biases are in tenths; inputs are in units of 1/IN_ONE and
\* activations in units of 1/SIG_ONE.
IN_ONE == 100000
SIG_ONE == 1000000

\* sigmoid at the integers -8..8, in units of 1/SIG_ONE; between two integers
\* the model interpolates linearly, outside it saturates.
SigmoidTable ==
  << 335, 911, 2473, 6693, 17986, 47426, 119203, 268941, 500000,
     731059, 880797, 952574, 982014, 993307, 997527, 999089, 999665 >>

\* sigmoid(x) = 1 / (1 + exp(-x)); x in units of 1/SIG_ONE
sigmoid(x) ==
  IF x >= 8 * SIG_ONE THEN SigmoidTable[17]
  ELSE IF x < -8 * SIG_ONE THEN SigmoidTable[1]
  ELSE LET k    == x \div SIG_ONE
           frac == (x - k * SIG_ONE) \div 1000
           lo   == SigmoidTable[k + 9]
           hi   == SigmoidTable[k + 10]
       IN  lo + ((hi - lo) * frac) \div 1000

\* the constructor with its Math.random() draws r (a record of the four
\* parameter arrays)
NeuralNetwork(inputNodes, hiddenNodes, outputNodes, r) ==
  [ inputNodes  |-> inputNodes,
    hiddenNodes |-> hiddenNodes,
    outputNodes |-> outputNodes,
    weightsIH   |-> r.weightsIH,
    weightsHO   |-> r.weightsHO,
    biasH       |-> r.biasH,
    biasO       |-> r.biasO ]

\* predict(inputs): the output activations, one per output node.  With the
\* dimensions undefined no loop runs and Array(undefined).fill(0), which is
\* [0], is returned.
predict(nn, inputs) ==
  IF DOMAIN nn = {} THEN << 0 >> ELSE
  LET hidden == [ j \in 1..nn.hiddenNodes |->
                    sigmoid(SumSeq([ i \in 1..nn.inputNodes |->
                                       inputs[i] * nn.weightsIH[i][j] ])
                            + nn.biasH[j] * IN_ONE) ]
  IN  [ k \in 1..nn.outputNodes |->
          sigmoid((SumSeq([ j \in 1..nn.hiddenNodes |->
                              hidden[j] * nn.weightsHO[j][k] ])
                   + nn.biasO[k] * SIG_ONE) \div 10) ]

\* copy(): a new network whose rows are copies of this one's rows
copy(nn) ==
  [ inputNodes  |-> nn.inputNodes,
    hiddenNodes |-> nn.hiddenNodes,
    outputNodes |-> nn.outputNodes,
    weightsIH   |-> [ i \in 1..Len(nn.weightsIH) |->
                        [ j \in 1..Len(nn.weightsIH[i]) |-> nn.weightsIH[i][j] ] ],
    weightsHO   |-> [ i \in 1..Len(nn.weightsHO) |->
                        [ j \in 1..Len(nn.weightsHO[i]) |-> nn.weightsHO[i][j] ] ],
    biasH       |-> [ j \in 1..Len(nn.biasH) |-> nn.biasH[j] ],
    biasO       |-> [ j \in 1..Len(nn.biasO) |-> nn.biasO[j] ] ]

\* mutate(rate): every value is replaced by mutateValue of it.  d gives the
\* outcome of the Math.random() draws per value: the amount added (0 when the
\* first draw is >= rate).  With rate = 0 nothing is ever added.
mutate(nn, rate, d) ==
  LET mutateValue(val, delta) == IF rate > 0 THEN val + delta ELSE val
  IN  [ nn EXCEPT
          !.weightsIH = [ i \in 1..Len(nn.weightsIH) |->
                            [ j \in 1..Len(nn.weightsIH[i]) |->
                                mutateValue(nn.weightsIH[i][j], d.weightsIH[i][j]) ] ],
          !.weightsHO = [ i \in 1..Len(nn.weightsHO) |->
                            [ j \in 1..Len(nn.weightsHO[i]) |->
                                mutateValue(nn.weightsHO[i][j], d.weightsHO[i][j]) ] ],
          !.biasH     = [ j \in 1..Len(nn.biasH) |->
                            mutateValue(nn.biasH[j], d.biasH[j]) ],
          !.biasO     = [ j \in 1..Len(nn.biasO) |->
                            mutateValue(nn.biasO[j], d.biasO[j]) ] ]

\* the fields of a network
NetworkFields ==
  { "inputNodes", "hiddenNodes", "outputNodes",
    "weightsIH", "weightsHO", "biasH", "biasO" }

\* toJSON(): the plain object with the seven fields (an undefined field of
\* the network is undefined in the object)
toJSON(nn) ==
  IF ~(NetworkFields \subseteq DOMAIN nn)
  THEN [ f \in NetworkFields \cap DOMAIN nn |-> nn[f] ] ELSE
  [ inputNodes  |-> nn.inputNodes,
    hiddenNodes |-> nn.hiddenNodes,
    outputNodes |-> nn.outputNodes,
    weightsIH   |-> nn.weightsIH,
    weightsHO   |-> nn.weightsHO,
    biasH       |-> nn.biasH,
    biasO       |-> nn.biasO ]

\* a wrong fromJSON: the output biases of data are not taken over
fromJSONZeroBias(data) ==
  IF ~(NetworkFields \subseteq DOMAIN data)
  THEN [ f \in NetworkFields \cap DOMAIN data |-> data[f] ] ELSE
  [ inputNodes  |-> data.inputNodes,
    hiddenNodes |-> data.hiddenNodes,
    outputNodes |-> data.outputNodes,
    weightsIH   |-> data.weightsIH,
    weightsHO   |-> data.weightsHO,
    biasH       |-> data.biasH,
    biasO       |-> [ k \in 1..Len(data.biasO) |-> 0 ] ]

\* fromJSON(data): a network of data's dimensions whose four parameter
\* arrays are data's (the constructor's random arrays are overwritten).  A
\* field that data lacks is undefined in the network: the record lacks it.
fromJSON(data) ==
  IF ~(NetworkFields \subseteq DOMAIN data)
  THEN [ f \in NetworkFields \cap DOMAIN data |-> data[f] ] ELSE
  [ inputNodes  |-> data.inputNodes,
    hiddenNodes |-> data.hiddenNodes,
    outputNodes |-> data.outputNodes,
    weightsIH   |-> data.weightsIH,
    weightsHO   |-> data.weightsHO,
    biasH       |-> data.biasH,
    biasO       |-> data.biasO ]

\* ------------------------------------------------------------------------
\* JSON text, as the sequence of its number tokens; the brackets of an
\* array are kept as the array's length in front of its elements.
RECURSIVE Flatten(_)
Flatten(ss) == IF ss = <<>> THEN <<>> ELSE Head(ss) \o Flatten(Tail(ss))

EncVec(v) == <<Len(v)>> \o v
EncMat(m) == <<Len(m)>> \o Flatten([ i \in 1..Len(m) |-> EncVec(m[i]) ])

\* JSON.stringify of the object toJSON() returns (undefined fields are left
\* out: an object without fields gives "{}")
JSONstringify(data) ==
  IF DOMAIN data = {} THEN <<>> ELSE
  << data.inputNodes, data.hiddenNodes, data.outputNodes >>
    \o EncMat(data.weightsIH) \o EncMat(data.weightsHO)
    \o EncVec(data.biasH) \o EncVec(data.biasO)

\* the vector that starts at position p of text t, and the position after it
DecVec(t, p) ==
  [ val  |-> SubSeq(t, p + 1, p + t[p]),
    next |-> p + t[p] + 1 ]

RECURSIVE DecRows(_, _, _)
DecRows(t, p, n) ==
  IF n = 0 THEN [ val |-> <<>>, next |-> p ]
  ELSE LET row  == DecVec(t, p)
           rest == DecRows(t, row.next, n - 1)
       IN  [ val |-> <<row.val>> \o rest.val, next |-> rest.next ]

DecMat(t, p) == DecRows(t, p + 1, t[p])

\* the position after the vector that starts at position p of text t, 0 if
\* the text ends before the vector does
SkipVec(t, p) ==
  IF p = 0 \/ p > Len(t) \/ t[p] < 0 \/ p + t[p] > Len(t) THEN 0 ELSE p + t[p] + 1

RECURSIVE SkipRows(_, _, _)
SkipRows(t, p, n) == IF n = 0 \/ p = 0 THEN p ELSE SkipRows(t, SkipVec(t, p), n - 1)

SkipMat(t, p) ==
  IF p = 0 \/ p > Len(t) \/ t[p] < 0 THEN 0 ELSE SkipRows(t, p + 1, t[p])

\* whether JSON.parse returns for text t (it throws a SyntaxError otherwise):
\* t is the text of an object without fields, "{}", or the text of an object
\* with the seven fields
Parsable(t) ==
  \/ t = <<>>
  \/ /\ Len(t) >= 3
     /\ SkipVec(t, SkipVec(t, SkipMat(t, SkipMat(t, 4)))) = Len(t) + 1

\* JSON.parse of such a text
JSONparse(t) ==
  IF t = <<>> THEN <<>> ELSE
  LET ih == DecMat(t, 4)
      ho == DecMat(t, ih.next)
      bh == DecVec(t, ho.next)
      bo == DecVec(t, bh.next)
  IN  [ inputNodes  |-> t[1],
        hiddenNodes |-> t[2],
        outputNodes |-> t[3],
        weightsIH   |-> ih.val,
        weightsHO   |-> ho.val,
        biasH       |-> bh.val,
        biasO       |-> bo.val ]

\* localStorage.getItem gives null for a key that was never set
NoItem == [ present |-> FALSE, text |-> <<>> ]
Item(t) == [ present |-> TRUE, text |-> t ]

\* ------------------------------------------------------------------------
\* Outcomes of Math.random() the model draws from.
\* A draw for one network: the four parameter arrays of a 4/6/1 network
\* whose only non-zero entries are hidden node 1's (w: its four input
\* weights, bH: its bias, wo: its output weight) and the output bias bo.
\* Every entry is in tenths and within -10..9: Math.random() * 2 - 1 is at
\* least -1 and below 1.
Draw(w, bH, wo, bo) ==
  [ weightsIH |-> [ i \in 1..4 |-> [ j \in 1..6 |-> IF j = 1 THEN w[i] ELSE 0 ] ],
    weightsHO |-> [ j \in 1..6 |-> << IF j = 1 THEN wo ELSE 0 >> ],
    biasH     |-> [ j \in 1..6 |-> IF j = 1 THEN bH ELSE 0 ],
    biasO     |-> << bo >> ]

\* never flaps: falls to the ground
DrawFall == Draw(<<0, 0, 0, 0>>, 0, 0, -10)
\* always flaps: stays at the ceiling
DrawUp   == Draw(<<0, 0, 0, 0>>, 0, 0, 9)
\* flaps when below the centre of the target gap
DrawSeek == Draw(<<0, 0, 0, -10>>, 5, -10, 5)
\* two controllers that hold a height of their own and meet the first pipe
DrawEdge == Draw(<<-6, -6, 0, 0>>, -1, -10, 3)
DrawLate == Draw(<<-4, 1, 0, 0>>, 2, -10, 5)

\* the draws of a fresh population, slot by slot
PlanFallers == [ i \in 1..AI_POPULATION |-> DrawFall ]
PlanDoomed ==
  [ i \in 1..AI_POPULATION |->
      CASE i = 2 -> DrawUp
        [] i = 3 -> DrawEdge
        [] i = 5 -> DrawLate
        [] OTHER -> DrawFall ]
PlanMixed == [ PlanDoomed EXCEPT ![7] = DrawSeek ]
InitPlans == { PlanFallers, PlanDoomed, PlanMixed }

\* the draws of the manual-mode agent's fresh network
PlayerDraws == { DrawFall, DrawSeek }

\* the amounts mutate() adds, slot by slot: nothing anywhere, or a large
\* jump of the output bias and a small drift of one input weight
NoDelta == Draw(<<0, 0, 0, 0>>, 0, 0, 0)
SomeDelta(i) == Draw(<<0, 0, 0, IF i % 2 = 0 THEN 0 ELSE -1>>, 0, 0, -5)
MutationPlans ==
  { [ i \in 1..AI_POPULATION |-> NoDelta ], [ i \in 1..AI_POPULATION |-> SomeDelta(i) ] }

\* ------------------------------------------------------------------------
\* Birds and pipes (part_000)

\* a wrong SpawnBird: the new bird starts with the velocity of a flap
SpawnBirdFlapping(brain, color) ==
  [ x        |-> CANVAS_WIDTH \div 3,
    y        |-> CANVAS_HEIGHT \div 2,
    velocity |-> JUMP_STRENGTH,
    rotation |-> 0,
    brain    |-> brain,
    fitness  |-> 0,
    score    |-> 0,
    distance |-> 0,
    alive    |-> TRUE,
    color    |-> color ]

\* the object literal of createPlayerBird and createAIBirds
SpawnBird(brain, color) ==
  [ x        |-> CANVAS_WIDTH \div 3,
    y        |-> CANVAS_HEIGHT \div 2,
    velocity |-> 0,
    rotation |-> 0,
    brain    |-> brain,
    fitness  |-> 0,
    score    |-> 0,
    distance |-> 0,
    alive    |-> TRUE,
    color    |-> color ]

\* createPlayerBird: the stored model if there is one and JSON.parse does
\* not throw, a fresh network (of draw r) otherwise
createPlayerBird(saved, r) ==
  LET brain == IF saved.present /\ Parsable(saved.text)
               THEN fromJSON(JSONparse(saved.text))
               ELSE NeuralNetwork(4, 6, 1, r)
  IN  SpawnBird(brain, PLAYER_COLOR)

\* a wrong ParentIndex: the parents fill the population block by block
ParentIndexBlocks(i, n) == ((i - 1) \div (AI_POPULATION \div n)) + 1

\* the slot of bestBrains that slot i of the new population is cloned from
ParentIndex(i, n) == ((i - 1) % n) + 1

\* a wrong Mutated: the champion's clone is mutated as well
MutatedAlways(i) == i >= 1

\* whether slot i (1-based) of an evolved population is mutated
Mutated(i) == i > 1

\* createAIBirds(population, bestBrains); rs: the fresh networks' draws,
\* ds: the mutations' draws
createAIBirds(population, bestBrains, rs, ds) ==
  [ i \in 1..population |->
      IF Len(bestBrains) > 0
      THEN LET parentBrain == bestBrains[ParentIndex(i, Len(bestBrains))]
               brain       == copy(parentBrain)
           IN  IF Mutated(i)
               THEN SpawnBird(mutate(brain, AI_MUTATION_RATE, ds[i]), HSLA)
               ELSE SpawnBird(brain, CHAMPION)
      ELSE SpawnBird(NeuralNetwork(4, 6, 1, rs[i]), HSLA) ]

AliveBirds(bs) == SelectSeq(bs, LAMBDA b : b.alive)

\* Math.max over a set of numbers that are >= 0 (0 for the empty set)
MaxOf(S) == IF S = {} THEN 0 ELSE CHOOSE m \in S : \A n \in S : n <= m

MaxScore(bs) == MaxOf({ bs[i].score : i \in 1..Len(bs) })

\* Array.prototype.sort((a, b) => b.fitness - a.fitness): descending and
\* stable, so the elements of the greatest fitness come first, in the order
\* they had, then those of the next fitness in F, and so on
RECURSIVE SortFrom(_, _)
SortFrom(s, F) ==
  IF F = {} THEN <<>>
  ELSE LET m == MaxOf(F)
       IN  SelectSeq(s, LAMBDA b : b.fitness = m) \o SortFrom(s, F \ { m })

SortByFitness(s) == SortFrom(s, { s[i].fitness : i \in 1..Len(s) })

\* the target of the AI: the first pipe whose trailing edge is right of the
\* first bird's left edge, or a virtual pipe
VirtualPipe ==
  [ x         |-> CANVAS_WIDTH,
    topHeight |-> CANVAS_HEIGHT \div 2 - PIPE_GAP \div 2,
    passed    |-> FALSE ]

\* a wrong FindPipe: the leading edge of the pipe instead of its trailing edge
RECURSIVE FindPipeLeading(_, _)
FindPipeLeading(ps, bx) ==
  IF ps = <<>> THEN VirtualPipe
  ELSE IF Head(ps).x > bx - BIRD_RADIUS_X THEN Head(ps)
       ELSE FindPipeLeading(Tail(ps), bx)

RECURSIVE FindPipe(_, _)
FindPipe(ps, bx) ==
  IF ps = <<>> THEN VirtualPipe
  ELSE IF Head(ps).x + PIPE_WIDTH > bx - BIRD_RADIUS_X THEN Head(ps)
       ELSE FindPipe(Tail(ps), bx)

closestPipe(bs, ps) == IF bs = <<>> THEN VirtualPipe ELSE FindPipe(ps, bs[1].x)

\* the four inputs of the network, in units of 1/IN_ONE
Inputs(bird, target) ==
  LET gapCenterY == target.topHeight + PIPE_GAP \div 2
  IN  << (bird.y * IN_ONE) \div CANVAS_HEIGHT,
         ((bird.velocity + 20 * YS) * IN_ONE) \div (40 * YS),
         ((target.x + PIPE_WIDTH - bird.x) * IN_ONE) \div CANVAS_WIDTH,
         ((bird.y - gapCenterY) * IN_ONE) \div CANVAS_HEIGHT + IN_ONE \div 2 >>

\* output[0] > 0.5
Flaps(bird, target) == predict(bird.brain, Inputs(bird, target))[1] * 2 > SIG_ONE

\* the horizontal overlap test of the pipe collision
Overlaps(bird, pipe) ==
  /\ bird.x + BIRD_RADIUS_X > pipe.x
  /\ bird.x - BIRD_RADIUS_X < pipe.x + PIPE_WIDTH

\* a wrong vertical test: touching an edge of the gap counts as outside
OutsideOrTouching(y, pipe) ==
  \/ y - BIRD_RADIUS <= pipe.topHeight
  \/ y + BIRD_RADIUS >= pipe.topHeight + PIPE_GAP

\* the vertical test: some part of the bird is outside the gap
OutsideGap(y, pipe) ==
  \/ y - BIRD_RADIUS < pipe.topHeight
  \/ y + BIRD_RADIUS > pipe.topHeight + PIPE_GAP

HitsPipe(bird, y, pipe) == Overlaps(bird, pipe) /\ OutsideGap(y, pipe)

\* a wrong HitsGround: the centre of the bird instead of its lower edge
HitsGroundCentre(y) == y >= CANVAS_HEIGHT - GROUND_HEIGHT

HitsGround(y) == y + BIRD_RADIUS >= CANVAS_HEIGHT - GROUND_HEIGHT
\* a wrong HitsCeiling: there is no ceiling
HitsCeilingNever(y) == FALSE

HitsCeiling(y) == y - BIRD_RADIUS <= 0

\* Math.min(PI/4, Math.max(-PI/4, velocity * 0.1)), in 1e-4 rad
Rotation(velocity) == Min(PI_4, Max(-PI_4, velocity * 100))

\* a wrong Fitness: the distance does not count
FitnessScoreOnly(distance, sc) == sc * SCORE_WEIGHT

\* fitness as update() computes it
Fitness(distance, sc) == distance + sc * SCORE_WEIGHT

\* a wrong MoveBird: the position is updated before the velocity
MoveBirdPositionFirst(bird, target, ps, ai) ==
  LET distance == bird.distance + PIPE_SPEED_PX
      v0 == IF ai /\ Flaps(bird, target) THEN JUMP_STRENGTH ELSE bird.velocity
      v1 == v0 + GRAVITY
      y1 == bird.y + v0
      y2 == IF HitsCeiling(y1) THEN BIRD_RADIUS ELSE y1
      v2 == IF HitsCeiling(y1) THEN 0 ELSE v1
  IN  [ bird EXCEPT
          !.distance = distance,
          !.fitness  = Fitness(distance, bird.score),
          !.velocity = v2,
          !.y        = y2,
          !.rotation = Rotation(v1),
          !.alive    = /\ ~HitsGround(y1)
                       /\ \A k \in 1..Len(ps) : ~HitsPipe(bird, y2, ps[k]) ]

\* the body of birdsRef.current.forEach in update(), for one bird; ai: the
\* bird is steered by its network (AI mode, or manual mode with autopilot)
MoveBird(bird, target, ps, ai) ==
  LET distance == bird.distance + PIPE_SPEED_PX
      v0 == IF ai /\ Flaps(bird, target) THEN JUMP_STRENGTH ELSE bird.velocity
      v1 == v0 + GRAVITY
      y1 == bird.y + v1
      y2 == IF HitsCeiling(y1) THEN BIRD_RADIUS ELSE y1
      v2 == IF HitsCeiling(y1) THEN 0 ELSE v1
  IN  [ bird EXCEPT
          !.distance = distance,
          !.fitness  = Fitness(distance, bird.score),
          !.velocity = v2,
          !.y        = y2,
          !.rotation = Rotation(v1),
          !.alive    = /\ ~HitsGround(y1)
                       /\ \A k \in 1..Len(ps) : ~HitsPipe(bird, y2, ps[k]) ]

\* a wrong BirdStep: a dead bird is moved like a live one
BirdStepNoSkip(bird, target, ps, ai) == MoveBird(bird, target, ps, ai)

\* "if (!bird.alive) return;" and the body
BirdStep(bird, target, ps, ai) ==
  IF ~bird.alive THEN bird ELSE MoveBird(bird, target, ps, ai)

\* a wrong AgentPass: the velocity is a variable the agents share, so that an
\* agent after the first starts from the velocity of the agent before it
AgentPassSharedVelocity(bs, ps, ai) ==
  LET target == closestPipe(bs, ps)
  IN  [ i \in 1..Len(bs) |->
          IF i = 1 \/ ~bs[i].alive THEN BirdStep(bs[i], target, ps, ai)
          ELSE BirdStep([ bs[i] EXCEPT !.velocity = bs[i - 1].velocity ],
                        target, ps, ai) ]

\* the per-agent pass of update()
AgentPass(bs, ps, ai) ==
  LET target == closestPipe(bs, ps)
  IN  [ i \in 1..Len(bs) |-> BirdStep(bs[i], target, ps, ai) ]

\* currentGenBestScore: the greatest score among the birds alive when the
\* pass starts
GenBestScore(bs) == MaxScore(AliveBirds(bs))

\* the pipe a step spawns, with the gap top Math.random() gives
NewPipe(topHeight) ==
  [ x |-> CANVAS_WIDTH, topHeight |-> topHeight, passed |-> FALSE ]

\* a wrong OffScreen: the leading edge instead of the trailing edge
OffScreenLeading(pipe) == pipe.x < 0

\* whether the trailing edge of a pipe has left the canvas
OffScreen(pipe) == pipe.x + PIPE_WIDTH < 0

\* whether a pipe not yet passed is passed now
Passes(bs, pipe) == ~pipe.passed /\ bs[1].x > pipe.x + PIPE_WIDTH

\* a wrong ScoreAlive: dead birds score as well
ScoreAll(bs) == [ k \in 1..Len(bs) |-> [ bs[k] EXCEPT !.score = @ + 1 ] ]

\* "Update score for all alive birds"
ScoreAlive(bs) ==
  [ k \in 1..Len(bs) |->
      IF bs[k].alive THEN [ bs[k] EXCEPT !.score = @ + 1 ] ELSE bs[k] ]

\* the loop "Move Pipes & Score" from index i down to 1; w carries the
\* pipes, the birds, scoreRef and the score state
RECURSIVE MovePipes(_, _)
MovePipes(i, w) ==
  IF i = 0 THEN w
  ELSE LET pipe == [ w.pipes[i] EXCEPT !.x = @ - PIPE_SPEED ]
       IN  IF OffScreen(pipe)
           THEN MovePipes(i - 1,
                  [ w EXCEPT !.pipes = SubSeq(@, 1, i - 1) \o SubSeq(@, i + 1, Len(@)) ])
           ELSE IF Passes(w.birds, pipe)
           THEN LET scored == ScoreAlive(w.birds)
                IN  MovePipes(i - 1,
                      [ w EXCEPT !.pipes[i] = [ pipe EXCEPT !.passed = TRUE ],
                                 !.birds    = scored,
                                 !.scoreRef = MaxScore(scored),
                                 !.score    = MaxScore(scored) ])
           ELSE MovePipes(i - 1, [ w EXCEPT !.pipes[i] = pipe ])

\* ------------------------------------------------------------------------
\* State of the Game component
VARIABLES
  \* React state
  mode, gameState, score, highScore, generation, aliveCount, bestScore,
  gameSpeed, isAutopilot,
  \* refs
  birds, pipes, lastPipeSpawn, lastTime, accumulator, scoreRef, savedBrains,
  \* localStorage: 'flappy-ai-model' and 'flappy-highscore'
  storedModel, storedHighScore,
  \* scheduling: the deferred calls of resetGame (the effect on resetGame and
  \* toggleMode's setTimeout) in the order they were queued; whether a frame
  \* is requested; where the frame callback is ("idle", or "loop" inside its
  \* while loop) and the gameState its closure holds
  pending, raf, pc, frameGameState,
  \* the isAutopilot that the memoized jump holds (its deps are [gameState, mode])
  jumpIsAutopilot,
  \* the last notice (toast) shown
  toast

reactState == << mode, gameState, score, highScore, generation, aliveCount,
                 bestScore, gameSpeed, isAutopilot >>
refs == << birds, pipes, lastPipeSpawn, lastTime, accumulator, scoreRef, savedBrains >>
vars == << reactState, refs, storedModel, storedHighScore, pending, raf, pc,
           frameGameState, jumpIsAutopilot, toast >>

\* the number of steps the current population has run
MaxDistance(bs) == MaxOf({ bs[i].distance : i \in 1..Len(bs) })
Steps == MaxDistance(birds) \div PIPE_SPEED_PX

\* Math.random() in units of 1/RAND_ONE: the model draws the least value and
\* the greatest below 1
RAND_ONE == 1000
Randoms == { 0, RAND_ONE - 1 }

\* a wrong TopHeight: the product is rounded up
TopHeightCeil(r) ==
  ((r * ((maxPipeH - minPipeH) \div YS + 1) + RAND_ONE - 1) \div RAND_ONE) * YS + minPipeH

\* "Math.floor(Math.random() * (maxPipeH - minPipeH + 1)) + minPipeH", in pixels
TopHeight(r) ==
  ((r * ((maxPipeH - minPipeH) \div YS + 1)) \div RAND_ONE) * YS + minPipeH

\* the gap tops the model draws: the two ends of the range
TopHeights == { TopHeight(r) : r \in Randoms }

\* user input other than stop-and-save is modelled before the game starts,
\* in its first MaxInputStep steps, and after it ended
InputWindow == gameState # "PLAYING" \/ Steps <= MaxInputStep

\* what 'flappy-ai-model' holds when the page is loaded: nothing, or a model
\* that an earlier session stored
InitModels == { NoItem, Item(JSONstringify(toJSON(NeuralNetwork(4, 6, 1, DrawSeek)))) }

\* other texts the key can hold when the page is loaded: a text cut short, the
\* text of an object without fields, and the text of a 2/3/1 network
SmallNetwork ==
  [ inputNodes  |-> 2, hiddenNodes |-> 3, outputNodes |-> 1,
    weightsIH   |-> << <<0, 0, 0>>, <<0, 0, 0>> >>,
    weightsHO   |-> << <<0>>, <<0>>, <<0>> >>,
    biasH       |-> <<0, 0, 0>>,
    biasO       |-> <<9>> ]
CutText(t) == SubSeq(t, 1, Len(t) - 1)
MalformedModels ==
  { Item(CutText(JSONstringify(toJSON(NeuralNetwork(4, 6, 1, DrawSeek))))),
    Item(<<>>),
    Item(JSONstringify(toJSON(SmallNetwork))) }
StoredModels == InitModels \cup MalformedModels

\* the memoized jump is made anew when gameState or mode changed
JumpClosure ==
  jumpIsAutopilot' = IF gameState' # gameState \/ mode' # mode
                     THEN isAutopilot' ELSE jumpIsAutopilot

\* the effect that requests the frame runs again when one of its deps changed
DepsChanged ==
  \/ gameState' # gameState \/ mode' # mode \/ gameSpeed' # gameSpeed
  \/ isAutopilot' # isAutopilot \/ highScore' # highScore
  \/ generation' # generation

Init ==
  /\ mode = "PLAYER" /\ gameState = "READY" /\ score = 0
  /\ generation = 1 /\ aliveCount = 1 /\ bestScore = 0
  /\ gameSpeed = 1 /\ isAutopilot = FALSE
  /\ storedModel \in StoredModels
  /\ storedHighScore = 0
  /\ highScore = storedHighScore
  /\ \E r \in PlayerDraws : birds = << createPlayerBird(storedModel, r) >>
  /\ pipes = <<>> /\ lastPipeSpawn = 0 /\ lastTime = 0 /\ accumulator = 0
  /\ scoreRef = 0 /\ savedBrains = <<>>
  /\ pending = <<>> /\ raf = TRUE /\ pc = "idle" /\ frameGameState = "NONE"
  /\ jumpIsAutopilot = FALSE
  /\ toast = "none"

\* resetGame(newMode), followed by the caller's setGameState(after) if any
\* (after = "READY" when there is none)
resetGame(currentMode, after) ==
  /\ IF currentMode = "PLAYER"
     THEN /\ \E r \in PlayerDraws : birds' = << createPlayerBird(storedModel', r) >>
          /\ aliveCount' = 1
          /\ UNCHANGED << generation, bestScore, savedBrains >>
     ELSE /\ \E rs \in InitPlans : birds' = createAIBirds(AI_POPULATION, <<>>, rs, rs)
          /\ generation' = 1
          /\ bestScore' = 0
          /\ aliveCount' = AI_POPULATION
          /\ savedBrains' = <<>>
  /\ pipes' = <<>>
  /\ scoreRef' = 0
  /\ score' = 0
  /\ lastPipeSpawn' = 0
  /\ gameState' = after
  /\ lastTime' = 0
  /\ accumulator' = 0

\* nextGeneration(), on the population bs that the per-agent pass left
nextGeneration(bs) ==
  \E sorted \in { SortByFitness(bs) } :
  LET bestBrains == [ k \in 1..Min(bestCount, Len(sorted)) |-> sorted[k].brain ]
  IN  /\ savedBrains' = bestBrains
      /\ storedModel' = IF Len(bestBrains) > 0
                        THEN Item(JSONstringify(toJSON(bestBrains[1])))
                        ELSE storedModel
      /\ \E ds \in MutationPlans :
           birds' = createAIBirds(AI_POPULATION, bestBrains, ds, ds)
      /\ pipes' = <<>>
      /\ scoreRef' = 0
      /\ score' = 0
      /\ lastPipeSpawn' = 0
      /\ gameState' = "PLAYING"
      /\ generation' = generation + 1
      /\ aliveCount' = AI_POPULATION
      /\ bestScore' = 0
      /\ UNCHANGED << highScore, storedHighScore >>

\* a wrong gameOver: the high score is kept but the game goes on
gameOverUnnoticed ==
  /\ UNCHANGED gameState
  /\ IF scoreRef > highScore
     THEN highScore' = scoreRef /\ storedHighScore' = scoreRef
     ELSE UNCHANGED << highScore, storedHighScore >>

\* gameOver(), manual mode
gameOver ==
  /\ gameState' = "GAME_OVER"
  /\ IF scoreRef > highScore
     THEN highScore' = scoreRef /\ storedHighScore' = scoreRef
     ELSE UNCHANGED << highScore, storedHighScore >>

\* a wrong SpawnDue: the counter has reached PIPE_SPAWN_RATE
SpawnDueOnReach(n) == n >= PIPE_SPAWN_RATE

\* "if (lastPipeSpawnRef.current > GAME_CONFIG.PIPE_SPAWN_RATE)", n the
\* counter after its increment
SpawnDue(n) == n > PIPE_SPAWN_RATE

\* "Pipe Logic" and "Move Pipes & Score" of update(), on the population bs
\* that the per-agent pass left
PipeLogic(bs) ==
  LET n     == lastPipeSpawn + 1
      spawn == SpawnDue(n)
  IN  \E topHeight \in IF spawn THEN TopHeights ELSE { 0 } :
        LET ps == IF spawn THEN Append(pipes, NewPipe(topHeight)) ELSE pipes
        IN  \E w \in { MovePipes(Len(ps), [ pipes |-> ps, birds |-> bs,
                                            scoreRef |-> scoreRef, score |-> score ]) } :
            /\ lastPipeSpawn' = IF spawn THEN 0 ELSE n
            /\ pipes' = w.pipes
            /\ birds' = w.birds
            /\ scoreRef' = w.scoreRef
            /\ score' = w.score

\* a wrong Extinct: the generation ends with its last survivor still alive
ExtinctButOne(living) == living <= 1

\* "if (living === 0)"
Extinct(living) == living = 0

\* whether update() steers the birds by their networks
AIControlled == mode = "AI" \/ (mode = "PLAYER" /\ isAutopilot)

\* the sole agent of manual mode dies in the next step
Doomed ==
  /\ mode = "PLAYER" /\ Len(birds) = 1 /\ birds[1].alive
  /\ ~AgentPass(birds, pipes, AIControlled)[1].alive

\* the real time between two frames: a nominal frame; in the first steps of a
\* game of manual mode also a short frame and a stall of 600 ms; and a stall
\* before the frame in which the manual-mode agent dies
Deltas ==
  IF gameState = "PLAYING" /\ mode = "PLAYER" /\ Steps <= MaxInputStep
  THEN { FIXED_TIME_STEP, FIXED_TIME_STEP \div 2, 600 * TS }
  ELSE IF gameState = "PLAYING" /\ Doomed
  THEN { FIXED_TIME_STEP, 600 * TS }
  ELSE { FIXED_TIME_STEP }

\* update(): one simulation step
update ==
  \E bs \in { AgentPass(birds, pipes, AIControlled) } :
  LET living == Len(AliveBirds(bs))
  IN  IF mode = "AI"
      THEN IF Extinct(living)
           THEN nextGeneration(bs)
           ELSE /\ bestScore' = GenBestScore(birds)
                /\ aliveCount' = living
                /\ PipeLogic(bs)
                /\ UNCHANGED << gameState, generation, highScore, savedBrains,
                                storedModel, storedHighScore >>
      ELSE IF bs = <<>> \/ ~bs[1].alive
           THEN /\ gameOver
                /\ birds' = bs
                /\ UNCHANGED << pipes, lastPipeSpawn, scoreRef, score, bestScore,
                                aliveCount, generation, savedBrains, storedModel >>
           ELSE /\ PipeLogic(bs)
                /\ UNCHANGED << gameState, generation, highScore, savedBrains,
                                storedModel, storedHighScore, bestScore, aliveCount >>

\* whether the step that update() would run is within the model's bounds
Plain(acc) ==
  /\ gameSpeed = 1 /\ generation = 1 /\ highScore = 0
  /\ storedModel \in InitModels
  /\ acc % FIXED_TIME_STEP = 0

WithinBounds(acc) ==
  /\ Steps < (IF Plain(acc) THEN MaxSteps
              ELSE IF mode = "PLAYER" THEN MaxManualSteps ELSE MaxSideSteps)
  /\ pending = <<>> \/ Steps <= MaxInputStep
  /\ (mode = "AI" /\ generation >= MaxGeneration)
       => AliveBirds(AgentPass(birds, pipes, AIControlled)) # <<>>

\* one iteration of the while loop of loopWrapper, if the accumulator acc
\* holds a time step, and the end of the callback if it does not; gs is the
\* gameState of the callback's closure
Iterate(acc, gs) ==
  /\ IF acc >= FIXED_TIME_STEP
     THEN /\ IF gs = "PLAYING"
             THEN WithinBounds(acc) /\ update
             ELSE /\ UNCHANGED << gameState, score, highScore, generation,
                                  aliveCount, bestScore, birds, pipes,
                                  lastPipeSpawn, scoreRef, savedBrains,
                                  storedModel, storedHighScore >>
          /\ accumulator' = acc - FIXED_TIME_STEP
     ELSE /\ UNCHANGED << gameState, score, highScore, generation, aliveCount,
                          bestScore, birds, pipes, lastPipeSpawn, scoreRef,
                          savedBrains, storedModel, storedHighScore >>
          /\ accumulator' = acc
  /\ UNCHANGED << mode, gameSpeed, isAutopilot, pending >>
  /\ IF accumulator' >= FIXED_TIME_STEP
     THEN pc' = "loop" /\ frameGameState' = gs /\ raf' = FALSE
     ELSE /\ pc' = "idle" /\ frameGameState' = "NONE"
          /\ raf' = (mode = "AI" \/ gs # "GAME_OVER" \/ DepsChanged
                       \/ gameState # gs)
  /\ JumpClosure
  /\ toast' = "none"

\* the frame callback, realDelta after the previous one
LoopWrapper ==
  /\ pc = "idle" /\ raf
  /\ \E realDelta \in Deltas :
       LET scaledDelta == (IF lastTime = 0 THEN 0 ELSE realDelta) * gameSpeed
           acc         == Min(accumulator + scaledDelta, ACC_CAP * gameSpeed)
       IN  Iterate(acc, gameState)
  /\ lastTime' = 1

\* the next iteration of the while loop
LoopIter ==
  /\ pc = "loop"
  /\ Iterate(accumulator, frameGameState)
  /\ UNCHANGED lastTime

\* ------------------------------------------------------------------------
\* Handlers of user input and timers.  A handler runs between two frame
\* callbacks (pc = "idle"), on the state of the last render.
Handler ==
  /\ UNCHANGED << pc, frameGameState >>
  /\ JumpClosure
  /\ raf' = (raf \/ DepsChanged)

\* toggleMode(): the click on the button of the other mode
toggleMode ==
  /\ pc = "idle"
  /\ InputWindow
  /\ Len(pending) + 2 <= MaxPending
  /\ LET newMode == IF mode = "PLAYER" THEN "AI" ELSE "PLAYER"
     IN  /\ mode' = newMode
         /\ pending' = pending \o << [ kind |-> "effect", mode |-> newMode ],
                                     [ kind |-> "timeout", mode |-> newMode ] >>
  /\ gameState' = "READY"
  /\ generation' = 1
  /\ gameSpeed' = 1
  /\ bestScore' = 0
  /\ UNCHANGED << score, highScore, aliveCount, isAutopilot, refs, storedModel,
                  storedHighScore >>
  /\ toast' = "none"
  /\ Handler

\* the oldest deferred resetGame(newMode) runs
DeferredReset ==
  /\ pc = "idle"
  /\ pending # <<>>
  /\ UNCHANGED storedModel
  /\ resetGame(Head(pending).mode, "READY")
  /\ pending' = Tail(pending)
  /\ UNCHANGED << mode, highScore, gameSpeed, isAutopilot,
                  storedHighScore >>
  /\ toast' = "none"
  /\ Handler

\* jump(): Space, ArrowUp, KeyF, a click or a touch on the canvas, START GAME
jump ==
  /\ pc = "idle"
  /\ InputWindow
  /\ IF mode = "AI" \/ jumpIsAutopilot \/ birds = <<>>
        \/ gameState \notin { "PLAYING", "READY" }
     THEN UNCHANGED << gameState, birds >>
     ELSE /\ gameState' = "PLAYING"
          /\ birds' = [ birds EXCEPT ![1].velocity = JUMP_STRENGTH ]
  /\ UNCHANGED << mode, score, highScore, generation, aliveCount, bestScore,
                  gameSpeed, isAutopilot, pipes, lastPipeSpawn, lastTime,
                  accumulator, scoreRef, savedBrains, storedModel,
                  storedHighScore, pending >>
  /\ toast' = "none"
  /\ Handler

\* resetGame() by KeyR or the RESTART button, shown after a game over
restart ==
  /\ pc = "idle"
  /\ mode = "PLAYER" /\ gameState = "GAME_OVER"
  /\ UNCHANGED storedModel
  /\ resetGame(mode, "READY")
  /\ UNCHANGED << mode, highScore, gameSpeed, isAutopilot,
                  storedHighScore, pending >>
  /\ toast' = "none"
  /\ Handler

\* KeyA and KeyI while playing in manual mode: setIsAutopilot
setIsAutopilot(on) ==
  /\ pc = "idle"
  /\ InputWindow
  /\ mode = "PLAYER" /\ gameState = "PLAYING"
  /\ isAutopilot' = on
  /\ UNCHANGED << mode, gameState, score, highScore, generation, aliveCount,
                  bestScore, gameSpeed, refs, storedModel, storedHighScore,
                  pending >>
  /\ toast' = "none"
  /\ Handler

\* a wrong setGameSpeed: the speed buttons are shown in both modes
setGameSpeedAnyMode(speed) ==
  /\ pc = "idle"
  /\ InputWindow
  /\ gameSpeed' = speed
  /\ UNCHANGED << mode, gameState, score, highScore, generation, aliveCount,
                  bestScore, isAutopilot, refs, storedModel, storedHighScore,
                  pending >>
  /\ toast' = "none"
  /\ Handler

\* the speed buttons, shown in AI mode
setGameSpeed(speed) ==
  /\ pc = "idle"
  /\ InputWindow
  /\ mode = "AI"
  /\ gameSpeed' = speed
  /\ UNCHANGED << mode, gameState, score, highScore, generation, aliveCount,
                  bestScore, isAutopilot, refs, storedModel, storedHighScore,
                  pending >>
  /\ toast' = "none"
  /\ Handler

\* the START TRAINING button, shown in AI mode when READY
startTraining ==
  /\ pc = "idle"
  /\ mode = "AI" /\ gameState = "READY"
  /\ UNCHANGED storedModel
  /\ resetGame(mode, "PLAYING")
  /\ UNCHANGED << mode, highScore, gameSpeed, isAutopilot,
                  storedHighScore, pending >>
  /\ toast' = "none"
  /\ Handler

\* a wrong SaveCandidates: the dead birds are candidates as well
SaveCandidatesAll(bs) == SortByFitness(bs)

\* the birds stopAndSave() chooses from: the alive ones, best first
SaveCandidates(bs) == SortByFitness(AliveBirds(bs))

\* stopAndSave(): the STOP & SAVE button, shown in AI mode
stopAndSave ==
  /\ pc = "idle"
  /\ mode = "AI"
  /\ \E aliveBirds \in { SaveCandidates(birds) } :
         IF Len(aliveBirds) > 0
         THEN /\ storedModel' = Item(JSONstringify(toJSON(aliveBirds[1].brain)))
              /\ toast' = "success"
         ELSE /\ UNCHANGED storedModel
              /\ toast' = "info"
  /\ resetGame(mode, "READY")
  /\ UNCHANGED << mode, highScore, gameSpeed, isAutopilot, storedHighScore, pending >>
  /\ Handler

Next ==
  \/ LoopWrapper
  \/ LoopIter
  \/ toggleMode
  \/ DeferredReset
  \/ jump
  \/ restart
  \/ \E on \in BOOLEAN : setIsAutopilot(on)
  \/ \E speed \in { 1, 2, 10 } : setGameSpeed(speed)
  \/ startTraining
  \/ stopAndSave

Spec == Init /\ [][Next]_vars

\* ------------------------------------------------------------------------
\* The same component with the effect on resetGame run at once.  Spec lets
\* the effect that follows a change of mode wait like the timeout; a renderer
\* that flushes the effects of a click within the click runs resetGame() of
\* the new mode before any other callback, and only the timeout waits.

\* toggleMode() with its render and the effect "resetGame()" of the new mode
toggleModeSync ==
  /\ pc = "idle"
  /\ InputWindow
  /\ Len(pending) + 1 <= MaxPending
  /\ LET newMode == IF mode = "PLAYER" THEN "AI" ELSE "PLAYER"
     IN  /\ mode' = newMode
         /\ pending' = Append(pending, [ kind |-> "timeout", mode |-> newMode ])
         /\ IF newMode = "PLAYER"
            THEN /\ \E r \in PlayerDraws : birds' = << createPlayerBird(storedModel, r) >>
                 /\ aliveCount' = 1
                 /\ UNCHANGED savedBrains
            ELSE /\ \E rs \in InitPlans :
                      birds' = createAIBirds(AI_POPULATION, <<>>, rs, rs)
                 /\ aliveCount' = AI_POPULATION
                 /\ savedBrains' = <<>>
  /\ pipes' = <<>>
  /\ scoreRef' = 0
  /\ score' = 0
  /\ lastPipeSpawn' = 0
  /\ lastTime' = 0
  /\ accumulator' = 0
  /\ gameState' = "READY"
  /\ generation' = 1
  /\ gameSpeed' = 1
  /\ bestScore' = 0
  /\ UNCHANGED << highScore, isAutopilot, storedModel, storedHighScore >>
  /\ toast' = "none"
  /\ Handler

NextSync ==
  \/ LoopWrapper
  \/ LoopIter
  \/ toggleModeSync
  \/ DeferredReset
  \/ jump
  \/ restart
  \/ \E on \in BOOLEAN : setIsAutopilot(on)
  \/ \E speed \in { 1, 2, 10 } : setGameSpeed(speed)
  \/ startTraining
  \/ stopAndSave

SpecSync == Init /\ [][NextSync]_vars

\* ------------------------------------------------------------------------
\* Properties.  A transition is told by what it changes:
\* a simulation step that keeps the population adds PIPE_SPEED to the
\* distance of the birds alive before it, and nothing else adds to a distance
StepRan ==
  /\ Len(birds') = Len(birds)
  /\ \E i \in 1..Len(birds) : birds'[i].distance = birds[i].distance + PIPE_SPEED_PX

\* the step of AI mode that ends a generation: the game goes on with another
\* generation counter (every reset leaves the game READY or starts from READY)
Rollover ==
  /\ mode = "AI" /\ gameState = "PLAYING" /\ gameState' = "PLAYING"
  /\ generation' # generation

\* a population as createAIBirds leaves it
FreshPopulation(bs) ==
  /\ Len(bs) = AI_POPULATION
  /\ \A i \in 1..Len(bs) :
       /\ bs[i].alive
       /\ bs[i].x * 3 = CANVAS_WIDTH /\ bs[i].y * 2 = CANVAS_HEIGHT
       /\ bs[i].velocity = 0 /\ bs[i].score = 0
       /\ bs[i].distance = 0 /\ bs[i].fitness = 0

\* two networks with the same weights and biases (the same fields, if one of
\* them lacks a field of a network)
SameParams(a, b) ==
  IF ~(NetworkFields \subseteq DOMAIN a) \/ ~(NetworkFields \subseteq DOMAIN b)
  THEN a = b
  ELSE /\ a.weightsIH = b.weightsIH /\ a.weightsHO = b.weightsHO
       /\ a.biasH = b.biasH /\ a.biasO = b.biasO

Champions(bs) == { i \in 1..Len(bs) : bs[i].color = CHAMPION }

C2_Champion ==
  [][ /\ (mode' = "AI" /\ generation' > 1) => Cardinality(Champions(birds')) = 1
      /\ Rollover =>
           \E bs \in { AgentPass(birds, pipes, AIControlled) } :
             \E i \in Champions(birds') :
               \E j \in 1..Len(bs) :
                 /\ \A k \in 1..Len(bs) : bs[k].fitness <= bs[j].fitness
                 /\ SameParams(birds'[i].brain, bs[j].brain) ]_vars

\* a second generation whose champion is the clone of slot 5 of the first,
\* the only agent that scored, and whose slot 6 is a mutated clone of it
C2_Witness ==
  /\ mode = "AI" /\ generation = 2
  /\ Champions(birds) = { 1 }
  /\ SameParams(birds[1].brain, NeuralNetwork(4, 6, 1, DrawLate))
  /\ ~SameParams(birds[6].brain, birds[1].brain)

\* C3: for every agent, alive or dead, in every state,
\* fitness = distance + score * 5000.
C3_FitnessFormula ==
  \A i \in 1..Len(birds) :
    birds[i].fitness = birds[i].distance + birds[i].score * 5000

\* C4: for any two agents of the population, in every state: with equal
\* scores the one of the strictly greater distance has the strictly greater
\* fitness, and with different scores the one of the higher score has the
\* strictly higher fitness.
C4_FitnessMonotone ==
  \A i, j \in 1..Len(birds) :
    /\ (birds[i].score = birds[j].score /\ birds[i].distance > birds[j].distance)
         => birds[i].fitness > birds[j].fitness
    /\ birds[i].score > birds[j].score => birds[i].fitness > birds[j].fitness

\* the pipe of pipes' that pipe k of pipes has become, if it is still there
Moved(k) ==
  { m \in 1..Len(pipes') :
      /\ pipes'[m].x = pipes[k].x - PIPE_SPEED
      /\ pipes'[m].topHeight = pipes[k].topHeight }

\* the pipes whose flag a step has set
NewlyPassed ==
  { k \in 1..Len(pipes) : ~pipes[k].passed /\ \E m \in Moved(k) : pipes'[m].passed }

\* C5: in a simulation step the passed flag of a pipe never goes back to
\* false and a pipe that has just been spawned is not passed; a step that sets
\* the flag of a pipe adds exactly 1 to the score of every agent alive after
\* it and leaves the score of every dead agent alone; a step that sets no flag
\* changes no score.
C5_PassedOnce ==
  [][ StepRan =>
        /\ \A k \in 1..Len(pipes) :
             pipes[k].passed => \A m \in Moved(k) : pipes'[m].passed
        /\ \A m \in 1..Len(pipes') :
             pipes'[m].x = CANVAS_WIDTH - PIPE_SPEED => ~pipes'[m].passed
        /\ Cardinality(NewlyPassed) <= 1
        /\ \A i \in 1..Len(birds) :
             birds'[i].score =
               IF birds'[i].alive
               THEN birds[i].score + Cardinality(NewlyPassed)
               ELSE birds[i].score ]_vars

\* a pipe has been passed: an agent that was alive has scored and an agent
\* that was dead has not
C5_Witness ==
  /\ \E k \in 1..Len(pipes) : pipes[k].passed
  /\ \E i, j \in 1..Len(birds) :
       /\ birds[i].alive /\ birds[i].score = 1
       /\ ~birds[j].alive /\ birds[j].score = 0

\* C6: a simulation step of AI mode makes the next generation if and only if
\* no agent is alive after its per-agent pass; the rollover adds exactly 1 to
\* the generation counter, empties the pipes, sets the spawn counter and the
\* score to 0, leaves a full fresh population and leaves the game PLAYING.
C6_Rollover ==
  [][ /\ (mode = "AI" /\ StepRan) => AliveBirds(birds') # <<>>
      /\ Rollover =>
           /\ AliveBirds(AgentPass(birds, pipes, AIControlled)) = <<>>
           /\ generation' = generation + 1
           /\ pipes' = <<>> /\ lastPipeSpawn' = 0
           /\ score' = 0 /\ scoreRef' = 0
           /\ Len(birds') = AI_POPULATION
           /\ gameState' = "PLAYING" ]_vars

\* a second generation, made when the last agents of the first died at a
\* pipe: the stored model is the network of slot 2, the first of them
C6_Witness ==
  /\ mode = "AI" /\ generation = 2 /\ gameState = "PLAYING"
  /\ pipes = <<>> /\ lastPipeSpawn = 0 /\ score = 0
  /\ FreshPopulation(birds)
  /\ storedModel.present
  /\ SameParams(fromJSON(JSONparse(storedModel.text)), NeuralNetwork(4, 6, 1, DrawUp))

\* C7: a simulation step changes nothing of an agent that was dead before
\* it: alive flag, y, velocity, rotation, distance, score and fitness stay.
C7_DeadStaysDead ==
  [][ (StepRan \/ (pc = "loop" /\ ~Rollover)) =>
        \A i \in 1..Len(birds) :
          ~birds[i].alive => (Len(birds') = Len(birds) /\ birds'[i] = birds[i]) ]_vars

\* an agent died and the others went on for at least a hundred steps, past
\* a scoring step
C7_Witness ==
  \E i, j \in 1..Len(birds) :
    /\ ~birds[i].alive /\ birds[j].alive
    /\ birds[j].distance > birds[i].distance + 100 * PIPE_SPEED_PX
    /\ birds[j].score = 1 /\ birds[i].score = 0

\* the claim's "within the gap": top and bottom of the agent inside it,
\* the edges included
InGap(y, pipe) ==
  /\ y - BIRD_RADIUS >= pipe.topHeight
  /\ y + BIRD_RADIUS <= pipe.topHeight + PIPE_GAP

\* C8: an agent that a step kills without its reaching the ground overlaps a
\* pipe horizontally whose gap does not hold all of it: an agent whose top and
\* bottom are within the gap of a pipe, the edges included, is not killed by
\* that pipe in that step.
C8_GapInclusive ==
  [][ StepRan =>
        \A i \in 1..Len(birds) :
          (birds[i].alive /\ ~birds'[i].alive /\ ~HitsGround(birds'[i].y))
            => \E k \in 1..Len(pipes) :
                 /\ Overlaps(birds[i], pipes[k])
                 /\ ~InGap(birds'[i].y, pipes[k]) ]_vars

\* an agent is alive after a step in which it overlapped a pipe with its top
\* exactly at the upper edge of the gap
C8_Witness ==
  \E i \in 1..Len(birds) : \E k \in 1..Len(pipes) :
    /\ birds[i].alive /\ birds[i].distance > 0
    /\ Overlaps(birds[i], [ pipes[k] EXCEPT !.x = @ + PIPE_SPEED ])
    /\ birds[i].y - BIRD_RADIUS = pipes[k].topHeight

\* the pipes of a step, advanced: those that were there and the one spawned
Advanced ==
  [ k \in 1..Len(pipes) |-> [ x |-> pipes[k].x - PIPE_SPEED,
                              topHeight |-> pipes[k].topHeight ] ]

Place(ps) == [ k \in 1..Len(ps) |-> [ x |-> ps[k].x, topHeight |-> ps[k].topHeight ] ]

\* C9: a simulation step that reaches the pipes (an agent is alive after its
\* per-agent pass) removes a pipe only if, advanced, its trailing edge
\* is left of the canvas (x + PIPE_WIDTH < 0); it removes every such pipe and
\* keeps the others in their order (a pipe it spawns comes last).
C9_Removal ==
  [][ (StepRan /\ AliveBirds(birds') # <<>>) =>
        LET kept == SelectSeq(Advanced, LAMBDA q : ~(q.x + PIPE_WIDTH < 0))
        IN  /\ Len(pipes') \in { Len(kept), Len(kept) + 1 }
            /\ SubSeq(Place(pipes'), 1, Len(kept)) = kept
            /\ Len(pipes') = Len(kept) + 1
                 => pipes'[Len(pipes')].x = CANVAS_WIDTH - PIPE_SPEED ]_vars

\* two pipes were spawned and only the second is left
C9_Witness ==
  /\ gameState = "PLAYING"
  /\ Steps > 2 * (PIPE_SPAWN_RATE + 1)
  /\ Len(pipes) = 1

\* C10: STOP & SAVE (the only handler that shows a notice) writes the stored
\* model if and only if an agent is alive, and what it writes is the network
\* of an alive agent of the greatest fitness among the alive ones; with no
\* agent alive the stored model stays; in both cases the game is READY with a
\* fresh population in generation 1.
C10_StopAndSave ==
  [][ toast' # "none" =>
        /\ IF AliveBirds(birds) # <<>>
           THEN /\ toast' = "success"
                /\ storedModel'.present
                /\ \E j \in 1..Len(birds) :
                     /\ birds[j].alive
                     /\ \A k \in 1..Len(birds) :
                          birds[k].alive => birds[k].fitness <= birds[j].fitness
                     /\ SameParams(fromJSON(JSONparse(storedModel'.text)),
                                   birds[j].brain)
           ELSE toast' = "info" /\ storedModel' = storedModel
        /\ gameState' = "READY" /\ generation' = 1
        /\ FreshPopulation(birds') ]_vars

\* training was stopped while the first agents of the population were dead:
\* the stored model is the network of slot 2
C10_Witness ==
  /\ toast = "success"
  /\ storedModel.present
  /\ SameParams(fromJSON(JSONparse(storedModel.text)), NeuralNetwork(4, 6, 1, DrawUp))

\* training was stopped with no agent alive
C10_WitnessNoneAlive == toast = "info"

\* a network of the 4/6/1 topology with every weight and bias defined
Canonical(nn) ==
  /\ DOMAIN nn = NetworkFields
  /\ nn.inputNodes = 4 /\ nn.hiddenNodes = 6 /\ nn.outputNodes = 1
  /\ Len(nn.weightsIH) = 4 /\ \A i \in 1..4 : Len(nn.weightsIH[i]) = 6
  /\ Len(nn.weightsHO) = 6 /\ \A j \in 1..6 : Len(nn.weightsHO[j]) = 1
  /\ Len(nn.biasH) = 6 /\ Len(nn.biasO) = 1

\* C11: whatever 'flappy-ai-model' holds (nothing, a text that does not
\* parse, a record without fields or of other sizes), the network of every
\* agent, the manual-mode agent's included, has the 4/6/1 topology with all
\* its weights and biases defined.
C11_CanonicalController ==
  \A i \in 1..Len(birds) : Canonical(birds[i].brain)

\* the sole agent of manual mode is dead
SoleAgentDead(bs) == mode = "PLAYER" /\ Len(bs) = 1 /\ ~bs[1].alive

\* C12: in manual mode a step that leaves the sole agent dead leaves the game
\* GAME_OVER; a dead sole agent means GAME_OVER; and in GAME_OVER every
\* transition but a reset (RESTART or KeyR, a switch of mode and its deferred
\* resets), so every simulation step and every jump, leaves the agent, the
\* pipes, the spawn counter, the score and the game state as they are.
C12_GameOver ==
  [][ /\ (SoleAgentDead(birds') /\ mode' = mode /\ Len(birds) = 1 /\ birds[1].alive)
         => gameState' = "GAME_OVER"
      /\ SoleAgentDead(birds) => gameState = "GAME_OVER"
      /\ (SoleAgentDead(birds) /\ gameState = "GAME_OVER"
            /\ ~(restart \/ toggleMode \/ DeferredReset))
         => UNCHANGED << birds, pipes, lastPipeSpawn, score, scoreRef, gameState >>
    ]_vars

\* the game is over inside a frame callback that started while PLAYING, and
\* at least two steps of that callback have run: the one in which the agent
\* died and one after it
C12_Witness ==
  /\ SoleAgentDead(birds) /\ gameState = "GAME_OVER"
  /\ pc = "loop" /\ frameGameState = "PLAYING"
  /\ accumulator + 2 * FIXED_TIME_STEP <= ACC_CAP

\* a network whose output does not depend on its inputs and is at most 0.5:
\* all weights to the output are 0 and the output bias is not positive
NeverFlaps(nn) ==
  /\ \A j \in 1..Len(nn.weightsHO) : nn.weightsHO[j][1] = 0
  /\ nn.biasO[1] <= 0

\* a population of AI mode at play none of whose agents ever flaps
Fallers ==
  /\ mode = "AI" /\ gameState = "PLAYING" /\ Len(birds) = AI_POPULATION
  /\ \A i \in 1..Len(birds) : NeverFlaps(birds[i].brain)

\* C13: while a population of agents that never flap is at play, no pipe has
\* been spawned and all 50 agents are alive, above the ground, at the same
\* height and of the same fitness; a simulation step either leaves them all
\* alive and the generation counter as it is, or all 50 touch the ground in
\* it, with identical fitness, and it makes the next generation, once.
C13_FallTogether ==
  [][ Fallers =>
        /\ pipes = <<>>
        /\ \A i \in 1..Len(birds) :
             /\ birds[i].alive
             /\ birds[i].y = birds[1].y /\ birds[i].fitness = birds[1].fitness
             /\ birds[i].y + BIRD_RADIUS < CANVAS_HEIGHT - GROUND_HEIGHT
        /\ (StepRan \/ Rollover) =>
             LET pass == AgentPass(birds, pipes, TRUE)
             IN  IF \E i \in 1..Len(pass) : ~pass[i].alive
                 THEN /\ \A i \in 1..Len(pass) :
                           /\ ~pass[i].alive
                           /\ pass[i].y + BIRD_RADIUS >= CANVAS_HEIGHT - GROUND_HEIGHT
                           /\ pass[i].fitness = pass[1].fitness
                      /\ Rollover
                      /\ generation' = generation + 1
                 ELSE /\ ~Rollover
                      /\ \A i \in 1..Len(birds) : birds'[i].alive
    ]_vars

\* the second generation of a population that never flaps: the first one has
\* died out
C13_Witness == Fallers /\ generation = 2 /\ pipes = <<>>

\* the networks of the state, and the input vectors they are compared on
Controllers ==
  { birds[i].brain : i \in 1..Len(birds) }
    \cup { savedBrains[i] : i \in 1..Len(savedBrains) }
RoundTripInputs ==
  { << 0, 0, 0, 0 >>,
    << IN_ONE, IN_ONE \div 2, IN_ONE \div 4, IN_ONE >> }

RankedAt(bs, k) ==
  CHOOSE j \in 1..Len(bs) :
    Cardinality({ m \in 1..Len(bs) :
                    \/ bs[m].fitness > bs[j].fitness
                    \/ bs[m].fitness = bs[j].fitness /\ m < j }) = k - 1

\* child has the dimensions of parent, and its weights and biases are
\* parent's with the amounts d added
MutationOf(child, parent, d) ==
  /\ child.inputNodes = parent.inputNodes
  /\ child.hiddenNodes = parent.hiddenNodes
  /\ child.outputNodes = parent.outputNodes
  /\ child.weightsIH = [ i \in 1..Len(parent.weightsIH) |->
       [ j \in 1..Len(parent.weightsIH[i]) |->
           parent.weightsIH[i][j] + d.weightsIH[i][j] ] ]
  /\ child.weightsHO = [ i \in 1..Len(parent.weightsHO) |->
       [ j \in 1..Len(parent.weightsHO[i]) |->
           parent.weightsHO[i][j] + d.weightsHO[i][j] ] ]
  /\ child.biasH = [ j \in 1..Len(parent.biasH) |-> parent.biasH[j] + d.biasH[j] ]
  /\ child.biasO = [ j \in 1..Len(parent.biasO) |-> parent.biasO[j] + d.biasO[j] ]

Spawned == pipes' # <<>> /\ pipes'[Len(pipes')].x = CANVAS_WIDTH - PIPE_SPEED

\* the steps between the spawn of the last pipe and that of the pipe before
\* it (every pipe moves PIPE_SPEED to the left in every step; -1 if the two
\* are not whole steps apart)
SpawnInterval ==
  LET d == pipes'[Len(pipes')].x - pipes'[Len(pipes') - 1].x
  IN  IF d % PIPE_SPEED = 0 THEN d \div PIPE_SPEED ELSE -1

\* what a simulation step that reaches the pipe logic does to the spawn
\* counter: it is 0 after a step that spawns and one more after any other
\* step, and it is within 0..PIPE_SPAWN_RATE before and after the step
CounterCycle ==
  /\ lastPipeSpawn \in 0..PIPE_SPAWN_RATE
  /\ lastPipeSpawn' \in 0..PIPE_SPAWN_RATE
  /\ lastPipeSpawn' = IF Spawned THEN 0 ELSE lastPipeSpawn + 1

CallbackState == IF pc = "loop" THEN frameGameState ELSE gameState

C17_WitnessReady ==
  /\ gameState = "READY" /\ pc = "idle" /\ lastTime = 1 /\ accumulator = 0

\* agent i was alive before a step and the step has advanced it
Advances(i) ==
  birds[i].alive /\ birds'[i].distance = birds[i].distance + PIPE_SPEED_PX

\* the velocity of agent i after the gravity of a step: that of a flap or the
\* agent's own plus GRAVITY, whichever gives the rotation the step has set
VelocityAfterGravity(i) ==
  CHOOSE v \in { birds[i].velocity + GRAVITY, JUMP_STRENGTH + GRAVITY } :
    birds'[i].rotation = Min(PI_4, Max(-PI_4, v * 100))

\* C18: an agent whose top is at or above the ceiling after the position
\* update of a step (y - BIRD_RADIUS <= 0) ends the step with y = BIRD_RADIUS
\* and velocity 0, and it is dead after the step only if at that height it
\* overlaps a pipe whose gap does not hold it, or if it touched the ground.
C18_Ceiling ==
  [][ StepRan =>
        \A i \in 1..Len(birds) :
          Advances(i) =>
            LET v1 == VelocityAfterGravity(i)
                y1 == birds[i].y + v1
            IN  y1 - BIRD_RADIUS <= 0 =>
                  /\ birds'[i].y = BIRD_RADIUS
                  /\ birds'[i].velocity = 0
                  /\ ~birds'[i].alive =>
                       \/ y1 + BIRD_RADIUS >= CANVAS_HEIGHT - GROUND_HEIGHT
                       \/ \E k \in 1..Len(pipes) :
                            /\ birds[i].x + BIRD_RADIUS_X > pipes[k].x
                            /\ birds[i].x - BIRD_RADIUS_X < pipes[k].x + PIPE_WIDTH
                            /\ ~InGap(BIRD_RADIUS, pipes[k])
    ]_vars

\* an agent is alive at the ceiling, where a step has put it
C18_Witness ==
  \E i \in 1..Len(birds) :
    /\ birds[i].alive /\ birds[i].distance > 0
    /\ birds[i].y = BIRD_RADIUS /\ birds[i].velocity = 0

\* an agent at the ceiling is dead, while another is alive
C18_WitnessPipe ==
  /\ \E i \in 1..Len(birds) :
       ~birds[i].alive /\ birds[i].y = BIRD_RADIUS /\ birds[i].velocity = 0
  /\ \E i \in 1..Len(birds) : birds[i].alive

\* agent i jumps in the step that is taken from this state
Jumps(i) == AIControlled /\ Flaps(birds[i], closestPipe(birds, pipes))

\* the sum 1 + 2 + ... + n
RECURSIVE Triangle(_)
Triangle(n) == IF n <= 0 THEN 0 ELSE n + Triangle(n - 1)

\* C19: a step that advances an alive agent which does not jump in it and
\* whose top stays below the ceiling sets velocity' = velocity + GRAVITY and
\* y' = y + velocity', so that y grows when the velocity was not negative;
\* an agent of AI mode that never flaps, created with velocity 0, has after
\* its n-th step velocity = n * GRAVITY and has fallen by (1 + ... + n) * GRAVITY.
C19_Gravity ==
  [][ StepRan =>
        \A i \in 1..Len(birds) :
          ( /\ Advances(i) /\ ~Jumps(i)
            /\ birds[i].y + birds[i].velocity + GRAVITY - BIRD_RADIUS > 0 ) =>
            /\ birds'[i].velocity = birds[i].velocity + GRAVITY
            /\ birds'[i].y = birds[i].y + birds'[i].velocity
            /\ birds[i].velocity >= 0 => birds'[i].y > birds[i].y
            /\ (mode = "AI" /\ Len(birds) = AI_POPULATION /\ NeverFlaps(birds[i].brain)) =>
                 LET n == birds'[i].distance \div PIPE_SPEED_PX
                 IN  /\ birds'[i].velocity = n * GRAVITY
                     /\ birds'[i].y = CANVAS_HEIGHT \div 2 + Triangle(n) * GRAVITY
    ]_vars

\* an agent of AI mode that never flaps has made three steps
C19_Witness ==
  \E i \in 1..Len(birds) :
    /\ mode = "AI" /\ Len(birds) = AI_POPULATION
    /\ NeverFlaps(birds[i].brain) /\ birds[i].alive
    /\ birds[i].distance = 3 * PIPE_SPEED_PX
    /\ birds[i].velocity = 3 * GRAVITY

\* the sole agent of manual mode, steered by hand, rises after a jump
C19_WitnessRising ==
  /\ mode = "PLAYER" /\ ~isAutopilot /\ Len(birds) = 1 /\ birds[1].alive
  /\ birds[1].distance >= 2 * PIPE_SPEED_PX
  /\ birds[1].velocity < 0 /\ birds[1].velocity > JUMP_STRENGTH + GRAVITY

\* the callback of birdsRef.current.forEach in update(), applied to element
\* k of the array: env holds what the callback can write, which is the array
\* and the locals anyAlive and currentGenBestScore
ForEachBody(env, k, target, ps, ai) ==
  [ birds    |-> [ env.birds EXCEPT ![k] = BirdStep(@, target, ps, ai) ],
    anyAlive |-> env.anyAlive \/ env.birds[k].alive,
    currentGenBestScore |->
      IF env.birds[k].alive /\ env.birds[k].score > env.currentGenBestScore
      THEN env.birds[k].score ELSE env.currentGenBestScore ]

\* the callback applied to the elements order[lo], ..., order[hi] in turn:
\* to those of the first half of the range, then to those of the second
RECURSIVE ForEach(_, _, _, _, _, _, _)
ForEach(env, order, lo, hi, target, ps, ai) ==
  IF lo > hi THEN env
  ELSE IF lo = hi THEN ForEachBody(env, order[lo], target, ps, ai)
  ELSE LET mid == (lo + hi) \div 2
       IN  CHOOSE out \in { ForEach(e, order, mid + 1, hi, target, ps, ai) :
                              e \in { ForEach(env, order, lo, mid, target, ps, ai) } } : TRUE

\* the per-agent pass of the step taken from this state, with the agents
\* processed in the given order; the sensing target is found before the pass
PassInOrder(order) ==
  CHOOSE out \in
    { ForEach(env, order, 1, Len(order), target, pipes, ai) :
        env \in { [ birds |-> birds, anyAlive |-> FALSE, currentGenBestScore |-> 0 ] },
        target \in { closestPipe(birds, pipes) }, ai \in { AIControlled } } : TRUE

\* orders in which n agents can be processed: the array's, its reverse and
\* a stride through it
Orders(n) ==
  { [ i \in 1..n |-> i ], [ i \in 1..n |-> n + 1 - i ],
    [ i \in 1..n |-> ((7 * i) % n) + 1 ] }

\* whether an order names each of n agents
Permutation(o, n) == \A k \in 1..n : \E i \in 1..n : o[i] = k

Ahead ==
  { k \in 1..Len(pipes) : pipes[k].x + PIPE_WIDTH > birds[1].x - BIRD_RADIUS_X }

\* C21: there is an agent and all agents have the same x; the sensing target
\* of the step taken from a state is the first pipe of the sequence with
\* x + PIPE_WIDTH > agentX - BIRD_RADIUS, which has the lowest x of these
\* pipes, while no other pipe overlaps an agent horizontally; without such a
\* pipe it is a pipe at x = CANVAS_WIDTH with gap top
\* CANVAS_HEIGHT/2 - PIPE_GAP/2; no pipe of the sequence is at x = CANVAS_WIDTH.
C21_Target ==
  /\ birds # <<>>
  /\ \A i \in 1..Len(birds) : birds[i].x = birds[1].x
  /\ LET target == closestPipe(birds, pipes)
     IN  IF Ahead = {}
         THEN /\ target.x = CANVAS_WIDTH
              /\ target.topHeight * 2 = CANVAS_HEIGHT - PIPE_GAP
              /\ ~target.passed
              /\ \A k \in 1..Len(pipes) : pipes[k] # target
         ELSE \E k \in Ahead :
                /\ target = pipes[k]
                /\ \A j \in Ahead : k <= j /\ pipes[k].x <= pipes[j].x
  /\ \A k \in 1..Len(pipes) :
       /\ pipes[k].x < CANVAS_WIDTH
       /\ k \notin Ahead => \A i \in 1..Len(birds) : ~Overlaps(birds[i], pipes[k])

\* the agents have left the first of two pipes behind: the second is the target
C21_Witness ==
  /\ gameState = "PLAYING" /\ Len(pipes) = 2 /\ Ahead = { 2 }
  /\ closestPipe(birds, pipes) = pipes[2]

\* a pipe straddles the left edge of the agents: it is the target still
C21_WitnessStraddle ==
  /\ gameState = "PLAYING" /\ 1 \in Ahead
  /\ pipes[1].x <= birds[1].x - BIRD_RADIUS_X
  /\ closestPipe(birds, pipes) = pipes[1]

\* steps were made before the first pipe: the target is the virtual pipe
C21_WitnessVirtual ==
  /\ gameState = "PLAYING" /\ Steps > 1 /\ pipes = <<>>
  /\ closestPipe(birds, pipes).x = CANVAS_WIDTH

\* C22: every pipe of the sequence has its gap top within [50, 300] pixels,
\* that is within [50, CANVAS_HEIGHT - GROUND_HEIGHT - PIPE_GAP - 50], so that
\* the gap begins below the ceiling and ends above the ground line; a step
\* keeps the gap top of every pipe it keeps, and no other transition changes
\* a pipe (it leaves the pipes alone or removes them all).
C22_GapTop ==
  /\ [](\A k \in 1..Len(pipes) :
          /\ pipes[k].topHeight >= 50 * YS
          /\ pipes[k].topHeight <= 300 * YS
          /\ pipes[k].topHeight <= CANVAS_HEIGHT - GROUND_HEIGHT - PIPE_GAP - 50 * YS
          /\ pipes[k].topHeight > 0
          /\ pipes[k].topHeight + PIPE_GAP < CANVAS_HEIGHT - GROUND_HEIGHT)
  /\ [][ IF StepRan
         THEN \A k \in 1..Len(pipes) : \A m \in 1..Len(pipes') :
                pipes'[m].x = pipes[k].x - PIPE_SPEED
                  => pipes'[m].topHeight = pipes[k].topHeight
         ELSE pipes' = pipes \/ pipes' = <<>> ]_vars

\* two pipes are on their way, one with the least and one with the greatest
\* gap top, and both have been moved
C22_Witness ==
  /\ Len(pipes) = 2
  /\ pipes[1].topHeight = 50 * YS /\ pipes[2].topHeight = 300 * YS
  /\ pipes[2].x < CANVAS_WIDTH - PIPE_SPEED

\* C23: the speed multiplier is 1, 2 or 10, and it is 1 whenever the mode is
\* PLAYER; a transition that changes it starts in AI mode, and a transition
\* that changes the mode leaves it 1.
C23_GameSpeed ==
  /\ [](gameSpeed \in { 1, 2, 10 } /\ (mode = "PLAYER" => gameSpeed = 1))
  /\ [][ /\ gameSpeed' # gameSpeed => mode = "AI"
         /\ mode' # mode => gameSpeed' = 1 ]_vars

\* training runs at ten times the speed
C23_Witness == mode = "AI" /\ gameState = "PLAYING" /\ gameSpeed = 10 /\ Steps > 0

\* the mode was switched back to manual, the population of AI mode still
\* there and the deferred resets of the switch still due
C23_WitnessSwitched ==
  /\ mode = "PLAYER" /\ gameSpeed = 1 /\ Len(birds) = AI_POPULATION
  /\ \E k \in 1..Len(pending) : pending[k].mode = "PLAYER"

\* C24: a jump action made while the mode is PLAYER and autopilot is on
\* changes neither the agent nor the game state, in READY as well as in
\* PLAYING.
C24_AutopilotBlocksJump ==
  [][ (jump /\ mode = "PLAYER" /\ isAutopilot)
        => (birds' = birds /\ gameState' = gameState) ]_vars

\* C25: in every state with mode PLAYER and the game READY in which input
\* is handled (no frame callback is running), a jump action leads to a state
\* in which the game is PLAYING.
C25_CanStart ==
  (mode = "PLAYER" /\ gameState = "READY" /\ pc = "idle")
    => ENABLED (jump /\ gameState' = "PLAYING")

\* the step taken kills agent i on pipe k: the agent was alive, overlaps the
\* pipe horizontally and ends with a part of it outside the gap
KilledBy(i, k) ==
  /\ birds[i].alive /\ ~birds'[i].alive
  /\ Overlaps(birds[i], pipes[k]) /\ OutsideGap(birds'[i].y, pipes[k])

\* C26: no step kills an agent on a pipe that was marked passed before it.
C26_PassedHarmless ==
  [][ StepRan =>
        \A i \in 1..Len(birds) : \A k \in 1..Len(pipes) :
          pipes[k].passed => ~KilledBy(i, k) ]_vars

\* the population a step leaves when its per-agent pass has run: the one of
\* the next state, or, when the step ends the generation, the one that
\* nextGeneration ranks
PassResult == IF Rollover THEN AgentPass(birds, pipes, TRUE) ELSE birds'

\* C27: the agents alive in a state have the same distance and the same
\* score; an agent that a step kills has a strictly greater distance and a
\* strictly greater fitness than every agent that was dead before the step,
\* also in the step that ends the generation, and the agents that one step
\* kills have the same distance and the same fitness.
C27_DeathOrder ==
  /\ [](\A i, j \in 1..Len(birds) :
          (birds[i].alive /\ birds[j].alive)
            => /\ birds[i].distance = birds[j].distance
               /\ birds[i].score = birds[j].score)
  /\ [][ (StepRan \/ Rollover) =>
           \E bs \in { PassResult } :
             \A i \in 1..Len(birds) :
               (birds[i].alive /\ ~bs[i].alive) =>
                 \A j \in 1..Len(birds) :
                   /\ ~birds[j].alive
                        => /\ bs[i].distance > bs[j].distance
                           /\ bs[i].fitness > bs[j].fitness
                   /\ (birds[j].alive /\ ~bs[j].alive)
                        => /\ bs[i].distance = bs[j].distance
                           /\ bs[i].fitness = bs[j].fitness
       ]_vars

\* agents have died in three or more different steps, several of them in the
\* same step, one of them after a pipe was counted, and an agent is alive
C27_Witness ==
  LET dead == { i \in 1..Len(birds) : ~birds[i].alive }
  IN  /\ Len(birds) = AI_POPULATION
      /\ Cardinality({ birds[i].distance : i \in dead }) >= 3
      /\ Cardinality(dead) > 3
      /\ \E i \in dead : birds[i].score > 0
      /\ \E i \in 1..Len(birds) : birds[i].alive

\* C28: a simulation step runs on exactly one agent when the mode is PLAYER
\* and on exactly AI_POPULATION agents when it is AI.
C28_PopulationMatchesMode ==
  [][ (StepRan \/ Rollover) =>
        Len(birds) = IF mode = "PLAYER" THEN 1 ELSE AI_POPULATION ]_vars

====
